---- MODULE Spec2Model ----
(***************************************************************************)
(* Model of metrics_generator/src/main.rs: a sequential HTTP server that   *)
(* fabricates CPU, memory and health data and exposes it on /healthz,      *)
(* /stats and /metrics (the latter through a prometheus_client registry).  *)
(***************************************************************************)
EXTENDS Integers, Sequences, FiniteSets, TLC

VARIABLES
    pc,               \* position of main: "start", "registered", "listening", "panicked"
    panicAt,          \* the unwrap or index that panicked: "", "bind", "accept", "read", "index", "write"
    PROM_REGISTRY,    \* the registry: sequence of registered descriptors
    METRIC_HEALTH,    \* gauge value (i64)
    METRIC_CPU,       \* family: function from the created bucket labels to gauge values
    METRIC_MEM_TOTAL, \* gauge value
    METRIC_MEM_USED,  \* gauge value
    http_request,     \* lines collected for the connection handled last
    route,            \* arm of handle_connection taken by the connection handled last
    response,         \* bytes handed to write_all for the connection handled last
    generated,        \* values produced by the generators for the connection handled last
    genPc,            \* generator harness: "off", "input", "cpu", "mem"
    genIn,            \* generator harness: the drawn arguments and random draws
    genOut,           \* generator harness: the value returned
    rpc,              \* concurrent harness: position of the caller running populate_metrics
    rlocal,           \* concurrent harness: values gathered by that caller
    spc,              \* concurrent harness: position of the caller running encode
    lock,             \* concurrent harness: holder of the PROM_REGISTRY mutex
    snapshot          \* concurrent harness: the body encoded last

gaugeVars == <<METRIC_HEALTH, METRIC_CPU, METRIC_MEM_TOTAL, METRIC_MEM_USED>>
connVars == <<http_request, route, response, generated>>
genVars == <<genPc, genIn, genOut>>
concVars == <<rpc, rlocal, spc, lock, snapshot>>
vars == <<pc, panicAt, PROM_REGISTRY, gaugeVars, connVars, genVars, concVars>>

----------------------------------------------------------------------------
\* Bounds of the model

\* number of evenly spaced points at which a uniform draw from a range is sampled
Grid == 2
\* largest core count handed to gen_metrics_cpu by the generator harness
MaxCores == 3
\* largest small total_bytes handed to gen_metrics_mem by the generator harness
MaxTotal == 5

----------------------------------------------------------------------------
\* Program constants

UNSUPPORTED_RESPONSE == "HTTP/1.1 405 Method Not Allowed\r\n\r\n"
NOT_FOUND_RESPONSE == "HTTP/1.1 404 Not Found\r\n\r\n"
BAD_REQUEST_RESPONSE == "HTTP/1.1 400 Bad Request\r\n\r\n"
OK_RESPONSE_LINE == "HTTP/1.1 200 Ok"
HEALTHY_RESPONSE == "HTTP/1.1 200 Ok\r\n\r\n"
\* 4294967296 bytes (4GB); memory sizes are counted in units of 1024 bytes
\* throughout, TLC's integers being 32 bits wide
TOTAL_BYTES == 4194304
CORE_COUNT == 8
PROM_NAMESPACE == "my_server_instr"
\* number of data points generated by gen_metrics_cpu
SAMPLE_COUNT == 15
\* exclusive upper end of the percentage draws
PERCENT_RANGE == 99
\* draws below this value are the unhealthy / spiking ones
PERCENT_THRESHOLD == 10

----------------------------------------------------------------------------
\* Text.  A line is a sequence of chunks; a chunk is the single space " " or
\* a run of characters holding no space.  Two lines are the same text iff
\* they are the same sequence of chunks (no two adjacent chunks are both
\* runs, except where a run is deliberately extended by one more character).

SP == " "

\* str::split(' ') : the pieces between single spaces, empty pieces kept
RECURSIVE Split(_, _)
Split(line, cur) ==
    IF line = <<>> THEN <<cur>>
    ELSE IF Head(line) = SP THEN <<cur>> \o Split(Tail(line), <<>>)
    ELSE Split(Tail(line), Append(cur, Head(line)))

split(line) == Split(line, <<>>)

Lines ==
    { <<"GET", SP, "/healthz", SP, "HTTP/1.1">>,
      <<"GET", SP, "/stats", SP, "HTTP/1.1">>,
      <<"GET", SP, "/metrics", SP, "HTTP/1.1">>,
      <<"GET", SP, "/bogus", SP, "HTTP/1.1">>,
      <<"GET", SP, "/healthz">>,
      <<"GET", SP, "/healthz", "/">>,
      <<"GET", SP, SP, "/healthz">>,
      <<"GET", SP>>,
      <<"GET">>,
      <<"POST", SP, "/metrics", SP, "HTTP/1.1">>,
      <<"POST", SP, "/healthz">>,
      <<"PUT", SP, "/stats", SP, "HTTP/1.1">>,
      <<"DELETE", SP, "/bogus">>,
      <<"get", SP, "/healthz", SP, "HTTP/1.1">>,
      <<SP, "GET", SP, "/healthz">>,
      <<"POST">>,
      <<"/metrics">> }

\* An item of BufReader::lines(): a line, or an io::Error
Line(l) == [ok |-> TRUE, line |-> l]
ReadErr == [ok |-> FALSE, line |-> <<>>]
HostHeader == <<"Host:", SP, "localhost">>

\* The byte streams a client may deliver
Streams ==
    { <<Line(l), Line(<<>>)>> : l \in Lines }
    \cup { <<>>,
           <<Line(<<>>)>>,
           <<Line(<<>>), Line(<<"GET", SP, "/metrics", SP, "HTTP/1.1">>)>>,
           <<Line(<<"GET", SP, "/bogus", SP, "HTTP/1.1">>)>>,
           <<Line(<<"GET", SP, "/healthz", SP, "HTTP/1.1">>), Line(HostHeader), Line(<<>>)>>,
           <<Line(<<"GET", SP, "/healthz", SP, "HTTP/1.1">>), Line(<<>>), ReadErr>>,
           <<ReadErr>>,
           <<Line(<<"GET", SP, "/healthz", SP, "HTTP/1.1">>), ReadErr>> }

\* lines().map(unwrap).take_while(non-empty).collect(): the lines before the
\* first empty one; an error met before it panics
RECURSIVE read_request(_)
read_request(stream) ==
    IF stream = <<>> THEN [panic |-> FALSE, lines |-> <<>>]
    ELSE IF ~Head(stream).ok THEN [panic |-> TRUE, lines |-> <<>>]
    ELSE IF Head(stream).line = <<>> THEN [panic |-> FALSE, lines |-> <<>>]
    ELSE LET rest == read_request(Tail(stream))
         IN  [panic |-> rest.panic, lines |-> <<Head(stream).line>> \o rest.lines]

----------------------------------------------------------------------------
\* Random value generators

\* outcomes of rng.gen_range(lo..hi), sampled at Grid evenly spaced points
UniformDraws(lo, hi) == { lo + ((k * (hi - lo)) \div Grid) : k \in 0 .. (Grid - 1) }

\* outcomes of rng.gen_range(0..99): both ends and both sides of the threshold
PercentDraws == {0, PERCENT_THRESHOLD - 1, PERCENT_THRESHOLD, PERCENT_RANGE - 1}

gen_health_status(draw) == draw >= PERCENT_THRESHOLD

gen_metrics_mem(total_bytes, draw) ==
    [used_bytes |-> draw, total_bytes |-> TOTAL_BYTES]

MemDraws(total_bytes) == UniformDraws(total_bytes \div 2, total_bytes)

\* one iteration of the loop of gen_metrics_cpu: d is the percentage draw
\* and u the position of the value inside the range it is drawn from
gen_sample(core_count, d, u) ==
    IF d >= PERCENT_THRESHOLD THEN u ELSE core_count + u

RECURSIVE Sum(_, _, _)
\* counts[from..to).iter().sum(), with 0-based indices as in the source
Sum(counts, from, to) ==
    IF from >= to THEN 0 ELSE counts[from + 1] + Sum(counts, from + 1, to)

\* the loop of gen_metrics_cpu: the 15 data points, oldest first
gen_counts(core_count, draws) ==
    [i \in 1 .. SAMPLE_COUNT |-> gen_sample(core_count, draws[i].d, draws[i].u)]

gen_metrics_cpu(core_count, draws) ==
    LET counts == gen_counts(core_count, draws)
    IN  [load_1m |-> counts[14 + 1],
         load_5m |-> Sum(counts, 9, 14),
         load_15m |-> Sum(counts, 0, Len(counts)),
         thread_count |-> core_count * 2]

\* The random draws of one call of gen_metrics_cpu: every sample takes the
\* normal branch at the same point u of its range, except at most one
\* sample, at position p, that spikes at that point of the spike range
\* (p = 0: no spike).
CpuDraw(u, p) ==
    [i \in 1 .. SAMPLE_COUNT |->
        IF i = p THEN [d |-> PERCENT_THRESHOLD - 1, u |-> u] ELSE [d |-> PERCENT_THRESHOLD, u |-> u]]

CpuDrawsAt(core_count, positions) ==
    { CpuDraw(x[1], x[2]) : x \in UniformDraws(0, core_count) \X ({0} \cup positions) }

\* draws of the server's calls: the spike falls on the sample that opens the
\* five-minute slice or on the newest sample
ServerSpikes == {10, 15}

\* what the server's generator calls can return
HealthOutcomes == { gen_health_status(hd) : hd \in PercentDraws }
ServerCpuOutcomes == { gen_metrics_cpu(CORE_COUNT, cd) : cd \in CpuDrawsAt(CORE_COUNT, ServerSpikes) }
ServerMemOutcomes == { gen_metrics_mem(TOTAL_BYTES, md) : md \in MemDraws(TOTAL_BYTES) }

----------------------------------------------------------------------------
\* Metrics registry

BUCKETS == {"1m", "5m", "15m"}
EmptyFamily == [l \in {} |-> 0]

\* Registry::register: the descriptor is pushed onto the registry's list
register(reg, name, help, metric) ==
    Append(reg, [name |-> <<PROM_NAMESPACE, name>>, help |-> help, metric |-> metric])

\* Family::get_or_create(label).set(v)
family_set(fam, label, v) ==
    [l \in (DOMAIN fam) \cup {label} |-> IF l = label THEN v ELSE fam[l]]

health_value(healthy) == IF healthy THEN 1 ELSE 0

\* populated_cpu with the third bucket label repeating the second
populated_cpu_repeated_label(fam, cpu) ==
    family_set(family_set(family_set(fam, "1m", cpu.load_1m), "5m", cpu.load_5m),
               "5m", cpu.load_15m)

populated_cpu(fam, cpu) ==
    family_set(family_set(family_set(fam, "1m", cpu.load_1m), "5m", cpu.load_5m),
               "15m", cpu.load_15m)

populate_metrics(g) ==
    /\ METRIC_HEALTH' = health_value(g.health)
    /\ METRIC_CPU' = populated_cpu(METRIC_CPU, g.cpu)
    /\ METRIC_MEM_USED' = g.mem.used_bytes
    /\ METRIC_MEM_TOTAL' = g.mem.total_bytes

\* the value lines of one instrument: a set, the order of a family's lines
\* being that of a hash map
metric_values(metric, h, cpu, mt, mu) ==
    CASE metric = "METRIC_HEALTH" -> {[bucket |-> "", value |-> h]}
      [] metric = "METRIC_CPU" -> {[bucket |-> l, value |-> cpu[l]] : l \in DOMAIN cpu}
      [] metric = "METRIC_MEM_TOTAL" -> {[bucket |-> "", value |-> mt]}
      [] metric = "METRIC_MEM_USED" -> {[bucket |-> "", value |-> mu]}

\* encoding::text::encode: per registered descriptor its HELP and TYPE
\* headers and its value lines
encode(reg, h, cpu, mt, mu) ==
    [i \in 1 .. Len(reg) |->
        [name |-> reg[i].name, help |-> reg[i].help, type |-> "gauge",
         values |-> metric_values(reg[i].metric, h, cpu, mt, mu)]]

\* the four register calls of register_prom_metrics, in order
registered(reg) ==
    register(register(register(register(reg,
        "_health", "server health", "METRIC_HEALTH"),
        "_cpu_load", "CPU load average", "METRIC_CPU"),
        "_memory_bytes_total", "total memory in bytes", "METRIC_MEM_TOTAL"),
        "_memory_bytes_used", "used memory in bytes", "METRIC_MEM_USED")

register_prom_metrics ==
    /\ pc = "start"
    /\ PROM_REGISTRY' = registered(PROM_REGISTRY)
    /\ pc' = "registered"
    /\ UNCHANGED <<panicAt, gaugeVars, connVars, genVars, concVars>>

----------------------------------------------------------------------------
\* Request router and handlers

NoBytes == [head |-> "", framed |-> FALSE, body |-> <<>>]
\* a response made of one constant string
Fixed(text) == [head |-> text, framed |-> FALSE, body |-> <<>>]
\* format!("{OK_RESPONSE_LINE}\r\nContent-Length: {len}\r\n\r\n{body}")
Framed(body) == [head |-> OK_RESPONSE_LINE, framed |-> TRUE, body |-> body]

NoneGenerated == [health |-> <<>>, cpu |-> <<>>, mem |-> <<>>]

\* stream.write_all(bytes).unwrap(): writing no bytes cannot fail
write_all(bytes, writeOk) ==
    /\ response' = bytes
    /\ IF bytes = NoBytes \/ writeOk
       THEN pc' = "listening" /\ panicAt' = panicAt
       ELSE pc' = "panicked" /\ panicAt' = "write"

\* handle_healthz answering an unhealthy draw with a status line
handle_healthz_with_status(writeOk) ==
    \E healthy \in HealthOutcomes :
        /\ generated' = [NoneGenerated EXCEPT !.health = <<healthy>>]
        /\ IF healthy
           THEN write_all(Fixed(HEALTHY_RESPONSE), writeOk)
           ELSE write_all(Fixed("HTTP/1.1 503 Service Unavailable\r\n\r\n"), writeOk)
        /\ UNCHANGED <<PROM_REGISTRY, gaugeVars>>

handle_healthz(writeOk) ==
    \E healthy \in HealthOutcomes :
        /\ generated' = [NoneGenerated EXCEPT !.health = <<healthy>>]
        /\ IF healthy
           THEN write_all(Fixed(HEALTHY_RESPONSE), writeOk)
           ELSE write_all(NoBytes, writeOk)
        /\ UNCHANGED <<PROM_REGISTRY, gaugeVars>>

\* handle_stats storing what it generated in the registered gauges
handle_stats_populating(writeOk) ==
    \E cpu \in ServerCpuOutcomes, mem \in ServerMemOutcomes :
        LET payload == [cpu |-> cpu, memory |-> mem]
        IN  /\ generated' = [NoneGenerated EXCEPT !.cpu = <<cpu>>, !.mem = <<mem>>]
            /\ write_all(Framed(<<payload>>), writeOk)
            /\ METRIC_CPU' = populated_cpu(METRIC_CPU, cpu)
            /\ METRIC_MEM_USED' = mem.used_bytes
            /\ METRIC_MEM_TOTAL' = mem.total_bytes
            /\ UNCHANGED <<PROM_REGISTRY, METRIC_HEALTH>>

handle_stats(writeOk) ==
    \E cpu \in ServerCpuOutcomes, mem \in ServerMemOutcomes :
        LET payload == [cpu |-> cpu, memory |-> mem]
        IN  /\ generated' = [NoneGenerated EXCEPT !.cpu = <<cpu>>, !.mem = <<mem>>]
            /\ write_all(Framed(<<payload>>), writeOk)
            /\ UNCHANGED <<PROM_REGISTRY, gaugeVars>>

handle_metrics(writeOk) ==
    \E healthy \in HealthOutcomes, cpu \in ServerCpuOutcomes, mem \in ServerMemOutcomes :
        LET g == [health |-> healthy, cpu |-> cpu, mem |-> mem]
        IN  /\ populate_metrics(g)
            /\ generated' = [health |-> <<healthy>>, cpu |-> <<cpu>>, mem |-> <<mem>>]
            /\ write_all(Framed(encode(PROM_REGISTRY, METRIC_HEALTH', METRIC_CPU',
                                       METRIC_MEM_TOTAL', METRIC_MEM_USED')), writeOk)
            /\ UNCHANGED PROM_REGISTRY

\* an arm of handle_connection that answers with a constant
respond(arm, text, writeOk) ==
    /\ route' = arm
    /\ generated' = NoneGenerated
    /\ write_all(Fixed(text), writeOk)
    /\ UNCHANGED <<PROM_REGISTRY, gaugeVars>>

\* a panic of the main thread inside handle_connection
panic(arm, at) ==
    /\ route' = arm
    /\ generated' = NoneGenerated
    /\ response' = NoBytes
    /\ pc' = "panicked"
    /\ panicAt' = at
    /\ UNCHANGED <<PROM_REGISTRY, gaugeVars>>

\* dispatch matching on the path without looking at the method
dispatch_on_path_only(req_split, writeOk) ==
    IF Len(req_split) < 2 THEN panic("malformed", "index")
    ELSE IF req_split[2] = <<"/healthz">>
         THEN route' = "healthz" /\ handle_healthz(writeOk)
    ELSE IF req_split[2] = <<"/stats">>
         THEN route' = "stats" /\ handle_stats(writeOk)
    ELSE IF req_split[2] = <<"/metrics">>
         THEN route' = "metrics" /\ handle_metrics(writeOk)
    ELSE respond("not_found", NOT_FOUND_RESPONSE, writeOk)

\* the match on the request line of handle_connection
dispatch(req_split, writeOk) ==
    IF req_split[1] = <<"GET">>
    THEN IF Len(req_split) < 2 THEN panic("malformed", "index")
         ELSE IF req_split[2] = <<"/healthz">>
              THEN route' = "healthz" /\ handle_healthz(writeOk)
         ELSE IF req_split[2] = <<"/stats">>
              THEN route' = "stats" /\ handle_stats(writeOk)
         ELSE IF req_split[2] = <<"/metrics">>
              THEN route' = "metrics" /\ handle_metrics(writeOk)
         ELSE respond("not_found", NOT_FOUND_RESPONSE, writeOk)
    ELSE respond("unsupported", UNSUPPORTED_RESPONSE, writeOk)

handle_connection(stream, writeOk) ==
    LET req == read_request(stream)
    IN  /\ http_request' = req.lines
        /\ IF req.panic THEN panic("none", "read")
           ELSE IF Len(req.lines) = 0 THEN respond("empty", BAD_REQUEST_RESPONSE, writeOk)
           ELSE dispatch(split(req.lines[1]), writeOk)

----------------------------------------------------------------------------
\* main

\* TcpListener::bind(..).unwrap()
Bind ==
    /\ pc = "registered"
    /\ \E bindOk \in BOOLEAN :
         IF bindOk THEN pc' = "listening" /\ panicAt' = panicAt
         ELSE pc' = "panicked" /\ panicAt' = "bind"
    /\ UNCHANGED <<PROM_REGISTRY, gaugeVars, connVars, genVars, concVars>>

\* one iteration of the accept loop whose stream.unwrap() fails
AcceptFails ==
    /\ pc = "listening"
    /\ pc' = "panicked"
    /\ panicAt' = "accept"
    /\ UNCHANGED <<PROM_REGISTRY, gaugeVars, connVars, genVars, concVars>>

\* one iteration of the accept loop: the connection is handled to its end
Serve ==
    /\ pc = "listening"
    /\ \E stream \in Streams, writeOk \in BOOLEAN : handle_connection(stream, writeOk)
    /\ UNCHANGED <<genVars, concVars>>

GaugeInit ==
    /\ METRIC_HEALTH = 0
    /\ METRIC_CPU = EmptyFamily
    /\ METRIC_MEM_TOTAL = 0
    /\ METRIC_MEM_USED = 0

ConnInit ==
    /\ http_request = <<>>
    /\ route = "none"
    /\ response = NoBytes
    /\ generated = NoneGenerated

GenIdle ==
    /\ genPc = "off"
    /\ genIn = [core_count |-> CORE_COUNT, cpu |-> CpuDraw(0, 0),
                total_bytes |-> TOTAL_BYTES, mem |-> TOTAL_BYTES \div 2]
    /\ genOut = <<>>

ConcIdle ==
    /\ rpc = "off"
    /\ rlocal = <<>>
    /\ spc = "off"
    /\ lock = "free"
    /\ snapshot = <<>>

Init ==
    /\ pc = "start"
    /\ panicAt = ""
    /\ PROM_REGISTRY = <<>>
    /\ GaugeInit
    /\ ConnInit
    /\ GenIdle
    /\ ConcIdle

Next ==
    \/ register_prom_metrics
    \/ Bind
    \/ AcceptFails
    \/ Serve

Spec == Init /\ [][Next]_vars

----------------------------------------------------------------------------
\* The generators as functions of their argument and of the random draws

GenInputs ==
    UNION { UNION { { [core_count |-> c, cpu |-> cd, total_bytes |-> t, mem |-> md] :
                        cd \in CpuDrawsAt(c, 1 .. SAMPLE_COUNT), md \in MemDraws(t) } :
                    t \in (2 .. MaxTotal) \cup {TOTAL_BYTES} } :
            c \in 1 .. MaxCores }

GenInit ==
    /\ pc = "start"
    /\ panicAt = ""
    /\ PROM_REGISTRY = <<>>
    /\ GaugeInit
    /\ ConnInit
    /\ ConcIdle
    /\ genPc = "input"
    /\ genIn \in GenInputs
    /\ genOut = <<>>

CallCpu ==
    /\ genPc = "input"
    /\ genOut' = <<gen_metrics_cpu(genIn.core_count, genIn.cpu)>>
    /\ genPc' = "cpu"
    /\ UNCHANGED <<pc, panicAt, PROM_REGISTRY, gaugeVars, connVars, concVars, genIn>>

CallMem ==
    /\ genPc = "input"
    /\ genOut' = <<gen_metrics_mem(genIn.total_bytes, genIn.mem)>>
    /\ genPc' = "mem"
    /\ UNCHANGED <<pc, panicAt, PROM_REGISTRY, gaugeVars, connVars, concVars, genIn>>

GenNext ==
    \/ CallCpu
    \/ CallMem

SpecGen == GenInit /\ [][GenNext]_vars

----------------------------------------------------------------------------
\* populate_metrics and the encode statement of handle_metrics run by two
\* concurrent callers, one store or one encoded instrument at a time

\* what the generator calls of the refreshing caller can return
ConcCpuOutcomes == { gen_metrics_cpu(CORE_COUNT, cd) : cd \in CpuDrawsAt(CORE_COUNT, {}) }

ConcInit ==
    /\ pc = "listening"
    /\ panicAt = ""
    /\ PROM_REGISTRY = registered(<<>>)
    /\ GaugeInit
    /\ ConnInit
    /\ GenIdle
    /\ rpc = "health"
    /\ rlocal = <<>>
    /\ spc = "lock"
    /\ lock = "free"
    /\ snapshot = <<>>

concFrame == <<pc, panicAt, PROM_REGISTRY, connVars, genVars>>

\* gen_health_status(); METRIC_HEALTH.set(..)
RefreshHealth ==
    /\ rpc = "health"
    /\ \E healthy \in HealthOutcomes : METRIC_HEALTH' = health_value(healthy)
    /\ rpc' = "cpu_1m"
    /\ UNCHANGED <<concFrame, METRIC_CPU, METRIC_MEM_TOTAL, METRIC_MEM_USED, rlocal, spc, lock, snapshot>>

\* gen_metrics_cpu(CORE_COUNT); METRIC_CPU.get_or_create(1m).set(..)
RefreshCpu1m ==
    /\ rpc = "cpu_1m"
    /\ \E cpu \in ConcCpuOutcomes :
         /\ rlocal' = <<cpu>>
         /\ METRIC_CPU' = family_set(METRIC_CPU, "1m", cpu.load_1m)
    /\ rpc' = "cpu_5m"
    /\ UNCHANGED <<concFrame, METRIC_HEALTH, METRIC_MEM_TOTAL, METRIC_MEM_USED, spc, lock, snapshot>>

RefreshCpu5m ==
    /\ rpc = "cpu_5m"
    /\ METRIC_CPU' = family_set(METRIC_CPU, "5m", rlocal[1].load_5m)
    /\ rpc' = "cpu_15m"
    /\ UNCHANGED <<concFrame, METRIC_HEALTH, METRIC_MEM_TOTAL, METRIC_MEM_USED, rlocal, spc, lock, snapshot>>

RefreshCpu15m ==
    /\ rpc = "cpu_15m"
    /\ METRIC_CPU' = family_set(METRIC_CPU, "15m", rlocal[1].load_15m)
    /\ rpc' = "mem_used"
    /\ UNCHANGED <<concFrame, METRIC_HEALTH, METRIC_MEM_TOTAL, METRIC_MEM_USED, rlocal, spc, lock, snapshot>>

\* gen_metrics_mem(TOTAL_BYTES); METRIC_MEM_USED.set(..)
RefreshMemUsed ==
    /\ rpc = "mem_used"
    /\ \E mem \in ServerMemOutcomes :
         /\ rlocal' = <<mem>>
         /\ METRIC_MEM_USED' = mem.used_bytes
    /\ rpc' = "mem_total"
    /\ UNCHANGED <<concFrame, METRIC_HEALTH, METRIC_CPU, METRIC_MEM_TOTAL, spc, lock, snapshot>>

RefreshMemTotal ==
    /\ rpc = "mem_total"
    /\ METRIC_MEM_TOTAL' = rlocal[1].total_bytes
    /\ rlocal' = <<>>
    /\ rpc' = "health"
    /\ UNCHANGED <<concFrame, METRIC_HEALTH, METRIC_CPU, METRIC_MEM_USED, spc, lock, snapshot>>

\* PROM_REGISTRY.lock().unwrap()
SnapshotLock ==
    /\ spc = "lock"
    /\ lock = "free"
    /\ lock' = "snapshot"
    /\ snapshot' = <<>>
    /\ spc' = "encode"
    /\ UNCHANGED <<concFrame, gaugeVars, rpc, rlocal>>

\* encode: the next registered instrument is read and written to the buffer
SnapshotEncode ==
    /\ spc = "encode"
    /\ Len(snapshot) < Len(PROM_REGISTRY)
    /\ snapshot' = Append(snapshot,
                     encode(PROM_REGISTRY, METRIC_HEALTH, METRIC_CPU,
                            METRIC_MEM_TOTAL, METRIC_MEM_USED)[Len(snapshot) + 1])
    /\ spc' = IF Len(snapshot') = Len(PROM_REGISTRY) THEN "unlock" ELSE "encode"
    /\ UNCHANGED <<concFrame, gaugeVars, rpc, rlocal, lock>>

\* the guard is dropped at the end of the encode statement
SnapshotUnlock ==
    /\ spc = "unlock"
    /\ lock' = "free"
    /\ spc' = "lock"
    /\ UNCHANGED <<concFrame, gaugeVars, rpc, rlocal, snapshot>>

ConcNext ==
    \/ RefreshHealth
    \/ RefreshCpu1m
    \/ RefreshCpu5m
    \/ RefreshCpu15m
    \/ RefreshMemUsed
    \/ RefreshMemTotal
    \/ SnapshotLock
    \/ SnapshotEncode
    \/ SnapshotUnlock

SpecConc == ConcInit /\ [][ConcNext]_vars

----------------------------------------------------------------------------
\* Properties

\* a request was read off the last connection and an arm of the router taken
RequestRead == route # "none"
\* the tokens of the request line of the last connection
Tokens == split(http_request[1])
IsGet(path) == Len(Tokens) >= 2 /\ Tokens[1] = <<"GET">> /\ Tokens[2] = <<path>>
KnownPaths == {<<"/healthz">>, <<"/stats">>, <<"/metrics">>}

OnlyHealthGenerated == generated.health # <<>> /\ generated.cpu = <<>> /\ generated.mem = <<>>
OnlyStatsGenerated == generated.health = <<>> /\ generated.cpu # <<>> /\ generated.mem # <<>>
AllGenerated == generated.health # <<>> /\ generated.cpu # <<>> /\ generated.mem # <<>>

\* C1: an empty request is answered 400, a request line of two or more
\* tokens is answered by the dispatch table: 405 for every method other than
\* GET whatever the path, 404 for GET of an unknown path, and GET /healthz,
\* /stats, /metrics reach the health, stats and metrics handler and no other.
C1_DispatchTable ==
    RequestRead =>
        IF http_request = <<>>
        THEN route = "empty" /\ response = Fixed(BAD_REQUEST_RESPONSE)
        ELSE Len(Tokens) >= 2 =>
             IF Tokens[1] # <<"GET">>
             THEN route = "unsupported" /\ response = Fixed(UNSUPPORTED_RESPONSE)
             ELSE IF Tokens[2] \notin KnownPaths
             THEN route = "not_found" /\ response = Fixed(NOT_FOUND_RESPONSE)
             ELSE IF Tokens[2] = <<"/healthz">>
             THEN route = "healthz" /\ OnlyHealthGenerated /\ ~response.framed
             ELSE IF Tokens[2] = <<"/stats">>
             THEN /\ route = "stats" /\ OnlyStatsGenerated
                  /\ response = Framed(<<[cpu |-> generated.cpu[1], memory |-> generated.mem[1]]>>)
             ELSE /\ route = "metrics" /\ AllGenerated
                  /\ response = Framed(encode(PROM_REGISTRY, METRIC_HEALTH, METRIC_CPU,
                                              METRIC_MEM_TOTAL, METRIC_MEM_USED))

\* a POST of /metrics was answered 405 and the server is back in its loop
C1_Witness ==
    /\ pc = "listening"
    /\ route = "unsupported"
    /\ http_request # <<>>
    /\ Len(Tokens) >= 2
    /\ Tokens[1] = <<"POST">>
    /\ Tokens[2] = <<"/metrics">>
    /\ response = Fixed(UNSUPPORTED_RESPONSE)

\* C2: a non-empty request whose first line has fewer than two tokens is
\* answered 400 and does not bring the process down.
C2_MalformedAnswered400 ==
    (RequestRead /\ http_request # <<>> /\ Len(Tokens) < 2) =>
        /\ response = Fixed(BAD_REQUEST_RESPONSE)
        /\ panicAt # "index"

\* C3: the bytes written for GET /healthz are the 200 line alone when the
\* health drawn for this request is good and no bytes at all when it is bad,
\* and from every state of the accept loop both outcomes can be drawn.
C3_HealthzResponse ==
    /\ (RequestRead /\ http_request # <<>> /\ IsGet("/healthz")) =>
          /\ generated.health # <<>>
          /\ response = IF generated.health[1] THEN Fixed(HEALTHY_RESPONSE) ELSE NoBytes
    /\ pc = "listening" =>
          /\ ENABLED (Serve /\ route' = "healthz" /\ response' = Fixed(HEALTHY_RESPONSE))
          /\ ENABLED (Serve /\ route' = "healthz" /\ response' = NoBytes)

\* GET /healthz drew an unhealthy status right after a healthy one was stored
\* by a scrape: nothing was written and the server is back in its loop
C3_Witness ==
    /\ pc = "listening"
    /\ http_request # <<>>
    /\ IsGet("/healthz")
    /\ generated.health = <<FALSE>>
    /\ response = NoBytes
    /\ METRIC_HEALTH = 1

\* C4: a failure to read from or write to a connection's stream leaves the
\* process in its accept loop.
C4_TransportErrorKeepsServing ==
    panicAt \in {"read", "write"} => pc = "listening"

\* the samples counts[0..15) of the call made by the generator harness
Samples == gen_counts(genIn.core_count, genIn.cpu)

\* C5: load_1m is the newest sample, load_5m the sum of the five newest
\* samples s11..s15, load_15m the sum of all fifteen, thread_count twice the
\* core count.
C5_CpuWindows ==
    genPc = "cpu" =>
        /\ \A i \in 1 .. SAMPLE_COUNT : Samples[i] >= 0 /\ Samples[i] < 2 * genIn.core_count
        /\ genOut[1].load_1m = Samples[15]
        /\ genOut[1].load_5m = Samples[11] + Samples[12] + Samples[13] + Samples[14] + Samples[15]
        /\ genOut[1].load_15m =
             Samples[1] + Samples[2] + Samples[3] + Samples[4] + Samples[5]
             + Samples[6] + Samples[7] + Samples[8] + Samples[9] + Samples[10]
             + Samples[11] + Samples[12] + Samples[13] + Samples[14] + Samples[15]
        /\ genOut[1].thread_count = 2 * genIn.core_count

\* C6: for every T >= 2 the snapshot has T/2 <= used_bytes < T and
\* total_bytes = T.
C6_MemSnapshot ==
    genPc = "mem" =>
        /\ genIn.total_bytes \div 2 <= genOut[1].used_bytes
        /\ genOut[1].used_bytes < genIn.total_bytes
        /\ genOut[1].total_bytes = genIn.total_bytes

InstrumentNames ==
    { <<PROM_NAMESPACE, "_health">>, <<PROM_NAMESPACE, "_cpu_load">>,
      <<PROM_NAMESPACE, "_memory_bytes_total">>, <<PROM_NAMESPACE, "_memory_bytes_used">> }

\* the value lines of the instrument called name in an encoded body
ValuesOf(body, name) == UNION { body[i].values : i \in { j \in 1 .. Len(body) : body[j].name = name } }
BlocksOf(body, name) == { j \in 1 .. Len(body) : body[j].name = name }

\* C7: once registered, the registry holds the four instruments, each once,
\* and no step adds, removes or re-registers one; the CPU family holds no
\* entry before the first scrape and the three buckets ever after; every
\* /metrics body has one value per scalar instrument and three, one per
\* bucket, for the CPU family.
C7_RegistryShape ==
    /\ [](pc # "start" =>
            /\ Len(PROM_REGISTRY) = 4
            /\ { PROM_REGISTRY[i].name : i \in 1 .. Len(PROM_REGISTRY) } = InstrumentNames
            /\ DOMAIN METRIC_CPU \in {{}, BUCKETS}
            /\ route = "metrics" =>
                 /\ DOMAIN METRIC_CPU = BUCKETS
                 /\ Len(response.body) = 4
                 /\ \A n \in InstrumentNames : Cardinality(BlocksOf(response.body, n)) = 1
                 /\ \A n \in InstrumentNames \ {<<PROM_NAMESPACE, "_cpu_load">>} :
                        Cardinality(ValuesOf(response.body, n)) = 1
                 /\ { v.bucket : v \in ValuesOf(response.body, <<PROM_NAMESPACE, "_cpu_load">>) } = BUCKETS
                 /\ Cardinality(ValuesOf(response.body, <<PROM_NAMESPACE, "_cpu_load">>)) = 3)
    /\ [][/\ pc # "start" => PROM_REGISTRY' = PROM_REGISTRY
          /\ DOMAIN METRIC_CPU = BUCKETS => DOMAIN METRIC_CPU' = BUCKETS]_vars

\* a scrape answered by a registry that an earlier scrape had already filled
\* with other values
C7_Witness ==
    /\ pc = "listening"
    /\ route = "metrics"
    /\ Len(response.body) = 4
    /\ DOMAIN METRIC_CPU = BUCKETS
    /\ METRIC_CPU["15m"] > METRIC_CPU["5m"]
    /\ METRIC_HEALTH = 0

\* a body is what a registry left by one whole refresh, or never refreshed,
\* encodes to
ConsistentBodies ==
    { encode(registered(<<>>), 0, EmptyFamily, 0, 0) }
    \cup { encode(registered(<<>>), health_value(x[1]), populated_cpu(EmptyFamily, x[2]),
                  x[3].total_bytes, x[3].used_bytes) :
             x \in HealthOutcomes \X ConcCpuOutcomes \X ServerMemOutcomes }

GeneratedBody ==
    encode(registered(<<>>), health_value(generated.health[1]),
           [b \in BUCKETS |-> CASE b = "1m" -> generated.cpu[1].load_1m
                                [] b = "5m" -> generated.cpu[1].load_5m
                                [] b = "15m" -> generated.cpu[1].load_15m],
           generated.mem[1].total_bytes, generated.mem[1].used_bytes)

\* C10: a step that handles anything but GET /metrics leaves every gauge
\* and every CPU label entry as it was, and the body of a /metrics response
\* carries exactly the values generated while handling that request.
C10_OnlyMetricsWrites ==
    [][/\ route' # "metrics" => UNCHANGED gaugeVars
       /\ route' = "metrics" => (AllGenerated' /\ response'.body = GeneratedBody')]_vars

\* /stats was served after a scrape and generated CPU values other than the
\* ones the registry still holds
C10_Witness ==
    /\ pc = "listening"
    /\ route = "stats"
    /\ DOMAIN METRIC_CPU = BUCKETS
    /\ generated.cpu[1].load_15m # METRIC_CPU["15m"]
    /\ generated.mem[1].used_bytes # METRIC_MEM_USED

====
